---- MODULE Spec2Model ----
(***************************************************************************)
(* Chain store client of the content-signature PKI signer (upload.go:      *)
(* upload, uploadToS3, writeLocalFile, GetX5U) and the APK signer's        *)
(* SignFile as listed in docs/architecture.rst.                            *)
(*                                                                         *)
(* Strings are sequences of one-character strings, so that the code's      *)
(* string concatenation (target.Path + name) is sequence concatenation.    *)
(* A retrieved body is a sequence of chunks: a whole PEM block (with its   *)
(* END line and line terminator) or a run of bytes that is no PEM block.   *)
(* File modes are written as the octal literal of the source ("0755").     *)
(***************************************************************************)
EXTENDS Integers, Sequences, FiniteSets, TLC

VARIABLES
    \* ---- local file system and object store (upload, GetX5U)
    dirs,        \* directory (sequence of path components) -> mode
    files,       \* file (sequence of path components) -> [data, mode]
    s3objects,   \* <<bucket, key>> -> [data, acl, contentType, disposition]
    \* ---- the last call of upload
    up_call,     \* [loc, name, data, env] of the last upload call
    up_err,      \* error returned by the last upload call
    up_s3calls,  \* uploader.Upload calls made by the last upload call
    up_localcalls, \* writeLocalFile calls made by the last upload call
    up_before,   \* [dirs, files, objects] as the last upload call found them
    nops,        \* number of upload calls made so far
    \* ---- GetX5U
    gx_in,       \* [x5u, net]: the argument and what the network answers
    gx_out,      \* what GetX5U returned (done says whether it did)
    \* ---- APK signer SignFile invocations
    tmp,         \* temp directory: file name -> [owner, mode, content]
    inv          \* invocation -> its local state

fsVars  == <<dirs, files, s3objects>>
upVars  == <<up_call, up_err, up_s3calls, up_localcalls, up_before, nops>>
gxVars  == <<gx_in, gx_out>>
apkVars == <<tmp, inv>>
vars    == <<dirs, files, s3objects, up_call, up_err, up_s3calls, up_localcalls,
             up_before, nops, gx_in, gx_out, tmp, inv>>

\* ---------------------------------------------------------------- bounds
MaxOps == 1
MaxBody == 4
MaxInv == 2

\* ---------------------------------------------------------------- errors
nil == "nil"

\* github.com/pkg/errors: Wrap returns nil when err is nil.
Wrap(err, message) == IF err = nil THEN nil ELSE message

\* errors.New / errors.Errorf / fmt.Errorf: always a non-nil error.
NewError(message) == message

\* ---------------------------------------------------------------- strings and paths
EndsWithSlash(s) == Len(s) > 0 /\ s[Len(s)] = "/"

RECURSIVE SplitFrom(_, _, _)
SplitFrom(s, cur, acc) ==
    IF s = <<>>
    THEN (IF cur = <<>> THEN acc ELSE Append(acc, cur))
    ELSE IF Head(s) = "/"
         THEN SplitFrom(Tail(s), <<>>, IF cur = <<>> THEN acc ELSE Append(acc, cur))
         ELSE SplitFrom(Tail(s), Append(cur, Head(s)), acc)

\* The components the kernel walks when it resolves a path.
Split(s) == SplitFrom(s, <<>>, <<>>)

Prefixes(c) == { SubSeq(c, 1, k) : k \in 0..Len(c) }
ProperPrefixes(c) == { SubSeq(c, 1, k) : k \in 0..(Len(c) - 1) }
Parent(c) == SubSeq(c, 1, Len(c) - 1)

\* ---------------------------------------------------------------- URLs
\* A URL string is held dissected: ok says whether net/url accepts it; Path is
\* the text after the authority, as written.
URL(ok, scheme, host, path) == [ok |-> ok, Scheme |-> scheme, Host |-> host, Path |-> path]

\* The text up to the first "?" or "#": what follows is query or fragment.
RECURSIVE BeforeQuery(_)
BeforeQuery(s) ==
    IF s = <<>> \/ Head(s) \in {"?", "#"} THEN <<>>
    ELSE <<Head(s)>> \o BeforeQuery(Tail(s))

urlParse(u) ==
    IF u.ok THEN [err |-> nil,
                  url |-> [Scheme |-> u.Scheme, Host |-> u.Host, Path |-> BeforeQuery(u.Path)]]
    ELSE [err |-> "parse error", url |-> [Scheme |-> "", Host |-> "", Path |-> <<>>]]
\* ---------------------------------------------------------------- file system calls
\* os.Stat: the error it returns, nil when the path resolves.
osStat(path, d, f, fault) ==
    LET c == Split(path) IN
    IF fault THEN "permission denied"
    ELSE IF c \in DOMAIN d THEN nil
    ELSE IF c \in DOMAIN f THEN (IF EndsWithSlash(path) THEN "not a directory" ELSE nil)
    ELSE IF \E q \in ProperPrefixes(c) : q \in DOMAIN f THEN "not a directory"
    ELSE "no such file or directory"

\* strings.Contains(err.Error(), "no such file or directory"), where the message
\* of the error os.Stat returns is "stat <path>: <errno text>". A path may hold
\* the phrase as one element.
NoSuchFile == "no such file or directory"
IsNotExist(path, err) ==
    \/ err = NoSuchFile
    \/ \E k \in 1..Len(path) : path[k] = NoSuchFile

\* os.MkdirAll: creates the directory and its missing parents with mode perm.
\* fault "early" fails before anything is made, "partial" after the parents.
\* os.Mkdir in its place: the last element only, its parent has to be there.
osMkdir(path, perm, d, f, fault) ==
    LET c == Split(path) IN
    IF fault # "none" THEN [err |-> "permission denied", dirs |-> d]
    ELSE IF c \in DOMAIN d \/ c \in DOMAIN f THEN [err |-> "file exists", dirs |-> d]
    ELSE IF Parent(c) \notin DOMAIN d THEN [err |-> "no such file or directory", dirs |-> d]
    ELSE [err |-> nil, dirs |-> [q \in DOMAIN d \cup {c} |-> IF q \in DOMAIN d THEN d[q] ELSE perm]]

osMkdirAll(path, perm, d, f, fault) ==
    LET c == Split(path)
        missing(k) == { q \in Prefixes(c) : q \notin DOMAIN d /\ Len(q) <= k }
        grown(k) == [q \in DOMAIN d \cup missing(k) |-> IF q \in DOMAIN d THEN d[q] ELSE perm]
    IN  IF fault = "early" THEN [err |-> "permission denied", dirs |-> d]
        ELSE IF \E q \in Prefixes(c) : q \in DOMAIN f THEN [err |-> "not a directory", dirs |-> d]
        ELSE IF fault = "partial" THEN [err |-> "permission denied", dirs |-> grown(Len(c) - 1)]
        ELSE [err |-> nil, dirs |-> grown(Len(c))]

\* ioutil.WriteFile: O_WRONLY|O_CREATE|O_TRUNC with perm; perm is used only when
\* the file is created, an existing file keeps its mode.
\* fault "early" fails on open, "partial" after the file was opened (truncated).
ioWriteFile(path, data, perm, d, f, fault) ==
    LET c == Split(path)
        put(x) == [q \in DOMAIN f \cup {c} |->
                     IF q = c THEN [data |-> x, mode |-> IF c \in DOMAIN f THEN f[c].mode ELSE perm]
                     ELSE f[q]]
    IN  IF fault = "early" THEN [err |-> "permission denied", files |-> f]
        ELSE IF c = <<>> \/ EndsWithSlash(path) \/ c \in DOMAIN d
             THEN [err |-> "is a directory", files |-> f]
        ELSE IF Parent(c) \notin DOMAIN d
             THEN [err |-> IF \E q \in ProperPrefixes(c) : q \in DOMAIN f
                           THEN "not a directory" ELSE "no such file or directory",
                   files |-> f]
        ELSE IF fault = "partial" THEN [err |-> "no space left on device", files |-> put(<<>>)]
        ELSE [err |-> nil, files |-> put(data)]

\* ---------------------------------------------------------------- upload
DirPerm == "0755"
FilePerm == "0755"

\* Key: aws.String(target.Path + name)
S3Key(target, name) == target.Path \o name

\* target.Path+name, the file writeLocalFile writes
\* The name alone, the directory left out.
LocalFileNameNoDir(target, name) == <<"/">> \o name
LocalFileName(target, name) == target.Path \o name

uploadToS3(data, name, target, objs, env) ==
    IF env.s3 THEN [err |-> "s3 upload failed", objects |-> objs]
    ELSE LET k == <<target.Host, S3Key(target, name)>>
             o == [data |-> data, acl |-> "public-read",
                   contentType |-> "binary/octet-stream", disposition |-> "attachment"]
         IN  [err |-> nil,
              objects |-> [q \in DOMAIN objs \cup {k} |-> IF q = k THEN o ELSE objs[q]]]

writeLocalFile(data, name, target, d, f, env) ==
    LET err == osStat(target.Path, d, f, env.stat) IN
    IF err # nil /\ ~IsNotExist(target.Path, err)
    THEN [err |-> err, dirs |-> d, files |-> f]
    ELSE LET mk == IF err # nil THEN osMkdirAll(target.Path, DirPerm, d, f, env.mkdir)
                   ELSE [err |-> nil, dirs |-> d]
         IN  IF mk.err # nil
             THEN [err |-> Wrap(mk.err, "failed to make directory"), dirs |-> mk.dirs, files |-> f]
             ELSE LET wr == ioWriteFile(LocalFileName(target, name), data, FilePerm, mk.dirs, f, env.write)
                  IN  [err |-> wr.err, dirs |-> mk.dirs, files |-> wr.files]

\* switch parsedURL.Scheme
DispatchWrong(scheme) == IF scheme = "s3" THEN "s3" ELSE "file"
Dispatch(scheme) ==
    CASE scheme = "s3" -> "s3"
      [] scheme = "file" -> "file"
      [] OTHER -> "default"

\* (s *ContentSigner) upload(data, name), s.chainUploadLocation = loc
uploadResult(loc, name, data, d, f, objs, env) ==
    LET parsed == urlParse(loc)
        same == [dirs |-> d, files |-> f, objects |-> objs, s3calls |-> 0, localcalls |-> 0]
    IN  IF parsed.err # nil
        THEN same @@ [err |-> Wrap(parsed.err, "failed to parse chain upload location")]
        ELSE CASE Dispatch(parsed.url.Scheme) = "s3" ->
                    LET r == uploadToS3(data, name, parsed.url, objs, env)
                    IN  [err |-> r.err, dirs |-> d, files |-> f, objects |-> r.objects,
                         s3calls |-> 1, localcalls |-> 0]
               [] Dispatch(parsed.url.Scheme) = "file" ->
                    LET r == writeLocalFile(data, name, parsed.url, d, f, env)
                    IN  [err |-> r.err, dirs |-> r.dirs, files |-> r.files, objects |-> objs,
                         s3calls |-> 0, localcalls |-> 1]
               [] OTHER -> same @@ [err |-> NewError("unsupported upload scheme")]

upload(loc, name, data, env) ==
    /\ nops < MaxOps
    /\ LET r == uploadResult(loc, name, data, dirs, files, s3objects, env) IN
       /\ dirs' = r.dirs
       /\ files' = r.files
       /\ s3objects' = r.objects
       /\ up_call' = [loc |-> loc, name |-> name, data |-> data, env |-> env]
       /\ up_err' = r.err
       /\ up_s3calls' = r.s3calls
       /\ up_localcalls' = r.localcalls
       /\ up_before' = [dirs |-> dirs, files |-> files, objects |-> s3objects]
    /\ nops' = nops + 1
    /\ UNCHANGED <<gxVars, apkVars>>
\* ---------------------------------------------------------------- PEM and X.509
\* Chunks of a body: four certificates in PEM, a CERTIFICATE block whose bytes
\* are no certificate, a PEM block of another type, and bytes that are no PEM.
CertChunks == {"EE", "EEsrv", "INT", "ROOT"}
Chunks == CertChunks \cup {"BAD", "KEY", "JUNK"}
Bodies == UNION { [1..n -> Chunks] : n \in 0..MaxBody }

IsPEMBlock(ch) == ch # "JUNK"
NilBlock == [isNil |-> TRUE, Type |-> "", Bytes |-> ""]

RECURSIVE FirstBlock(_, _)
FirstBlock(data, i) ==
    IF i > Len(data) THEN 0
    ELSE IF IsPEMBlock(data[i]) THEN i ELSE FirstBlock(data, i + 1)

\* pem.Decode: the next PEM block of the input and the remainder after it; when
\* there is none, no block and the whole input.
pemDecode(data) ==
    LET i == FirstBlock(data, 1) IN
    IF i = 0 THEN [block |-> NilBlock, rest |-> data]
    ELSE [block |-> [isNil |-> FALSE,
                     Type |-> IF data[i] = "KEY" THEN "PRIVATE KEY" ELSE "CERTIFICATE",
                     Bytes |-> data[i]],
          rest |-> SubSeq(data, i + 1, Len(data))]

Certificate(id) ==
    CASE id = "EE"    -> [subject |-> "EE", issuer |-> "INT", isCA |-> FALSE, eku |-> {"codeSigning"}]
      [] id = "EEsrv" -> [subject |-> "EEsrv", issuer |-> "INT", isCA |-> FALSE, eku |-> {"serverAuth"}]
      [] id = "INT"   -> [subject |-> "INT", issuer |-> "ROOT", isCA |-> TRUE, eku |-> {}]
      [] OTHER        -> [subject |-> "ROOT", issuer |-> "ROOT", isCA |-> TRUE, eku |-> {}]

x509ParseCertificate(bytes) ==
    IF bytes \in CertChunks THEN [err |-> nil, cert |-> Certificate(bytes)]
    ELSE [err |-> "asn1: structure error", cert |-> Certificate("ROOT")]

\* A certificate without an extended key usage list permits every usage.
PermitsUsage(c, usage) == c.eku = {} \/ usage \in c.eku

\* (*x509.Certificate).Verify with Roots, Intermediates and KeyUsages: nil when a
\* chain from c to a root exists on which every certificate permits the usage.
x509Verify(c, roots, inters, usage) ==
    LET direct == IF c \in roots THEN {<<c>>} ELSE {}
        viaRoot == { <<c, r>> : r \in { x \in roots : c.issuer = x.subject } }
        viaInter == { <<c, p[1], p[2]>> :
                        p \in { q \in inters \X roots :
                                  /\ c.issuer = q[1].subject
                                  /\ q[1].isCA
                                  /\ q[1].issuer = q[2].subject } }
        chains == { ch \in direct \cup viaRoot \cup viaInter :
                      \A k \in 1..Len(ch) : PermitsUsage(ch[k], usage) }
    IN  IF chains = {} THEN "x509: certificate signed by unknown authority" ELSE nil

\* ---------------------------------------------------------------- retrieval
StatusOK == 200

\* c.Get(x5u): over the registered file transport (http.Dir("/")) for scheme
\* file, over the network for http and https; no transport for other schemes.
clientGet(url, net, d, f) ==
    LET c == Split(url.Path)
        resp(code, body) == [err |-> nil, StatusCode |-> code, body |-> body, readErr |-> net.readErr]
    IN  IF url.Scheme = "file"
        THEN IF c \in DOMAIN f THEN resp(200, f[c].data)
             ELSE IF c \in DOMAIN d THEN resp(200, <<"JUNK">>)
             ELSE resp(404, <<"JUNK">>)
        ELSE IF url.Scheme \in {"http", "https"}
        THEN IF net.getErr THEN [err |-> "dial tcp: connection refused", StatusCode |-> 0,
                                 body |-> <<>>, readErr |-> FALSE]
             ELSE resp(net.code, net.body)
        ELSE [err |-> "unsupported protocol scheme", StatusCode |-> 0, body |-> <<>>, readErr |-> FALSE]

ioReadAll(resp) ==
    IF resp.readErr THEN [err |-> "unexpected EOF", body |-> <<>>]
    ELSE [err |-> nil, body |-> resp.body]

\* resp.StatusCode != http.StatusOK
StatusNotOKIgnored(code) == FALSE
StatusNotOK(code) == code # StatusOK

\* len(rest) != 0
TrailingDataIgnored(rest) == FALSE
TrailingData(rest) == Len(rest) # 0

Returned(certs, err, decodes, verified, retrieved, body) ==
    [done |-> TRUE, certs |-> certs, err |-> err, pemDecodes |-> decodes,
     verified |-> verified, retrieved |-> retrieved, body |-> body]

\* GetX5U from "verify the chain" on: body was read, err is what ReadAll left.
parseChain(body, err0) ==
    LET ret(certs, err, n, v) == Returned(certs, err, n, v, TRUE, body)
        d1 == pemDecode(body)
    IN
    IF d1.block.isNil \/ d1.block.Type # "CERTIFICATE"
    THEN ret(<<>>, Wrap(err0, "failed to PEM decode ee certificate from chain"), 1, FALSE)
    ELSE
    LET p1 == x509ParseCertificate(d1.block.Bytes) IN
    IF p1.err # nil
    THEN ret(<<>>, Wrap(p1.err, "failed to parse ee certificate from chain"), 1, FALSE)
    ELSE
    LET ee == p1.cert
        certs1 == <<ee>>
        d2 == pemDecode(d1.rest)
    IN
    IF d2.block.isNil \/ d2.block.Type # "CERTIFICATE"
    THEN ret(certs1, Wrap(p1.err, "failed to PEM decode intermediate certificate from chain"), 2, FALSE)
    ELSE
    LET p2 == x509ParseCertificate(d2.block.Bytes) IN
    IF p2.err # nil
    THEN ret(certs1, Wrap(p2.err, "failed to parse intermediate issuer certificate from chain"), 2, FALSE)
    ELSE
    LET inter == p2.cert
        inters == {inter}
        certs2 == Append(certs1, inter)
        d3 == pemDecode(d2.rest)
    IN
    IF d3.block.isNil \/ d3.block.Type # "CERTIFICATE"
    THEN ret(certs2, Wrap(p2.err, "failed to PEM decode root certificate from chain"), 3, FALSE)
    ELSE
    LET p3 == x509ParseCertificate(d3.block.Bytes) IN
    IF p3.err # nil
    THEN ret(certs2, Wrap(p3.err, "failed to parse root certificate from chain"), 3, FALSE)
    ELSE IF TrailingData(d3.rest)
    THEN ret(certs2, NewError("trailing data after root certificate in chain"), 3, FALSE)
    ELSE
    LET root == p3.cert
        roots == {root}
        certs3 == Append(certs2, root)
        verr == x509Verify(ee, roots, inters, "codeSigning")
    IN
    IF verr # nil
    THEN ret(certs3, Wrap(verr, "failed to verify certificate chain"), 3, TRUE)
    ELSE ret(certs3, verr, 3, TRUE)

GetX5UResult(x5u, net, d, f) ==
    LET fail(err) == Returned(<<>>, err, 0, FALSE, FALSE, <<>>)
        parsedURL == urlParse(x5u)
    IN
    IF parsedURL.err # nil
    THEN fail(Wrap(parsedURL.err, "failed to parse chain upload location"))
    ELSE
    LET resp == clientGet(parsedURL.url, net, d, f) IN
    IF resp.err # nil
    THEN fail(Wrap(resp.err, "failed to retrieve x5u"))
    ELSE IF StatusNotOK(resp.StatusCode)
    THEN fail(NewError("failed to retrieve x5u: bad status"))
    ELSE
    LET rd == ioReadAll(resp) IN
    IF rd.err # nil
    THEN fail(Wrap(rd.err, "failed to parse x5u body"))
    ELSE parseChain(rd.body, rd.err)

NotCalled ==
    [done |-> FALSE, certs |-> <<>>, err |-> nil, pemDecodes |-> 0,
     verified |-> FALSE, retrieved |-> FALSE, body |-> <<>>]

GetX5U(x5u, net) ==
    /\ ~gx_out.done
    /\ gx_in' = [x5u |-> x5u, net |-> net]
    /\ gx_out' = GetX5UResult(x5u, net, dirs, files)
    /\ UNCHANGED <<fsVars, upVars, apkVars>>
\* ---------------------------------------------------------------- APK signer: SignFile
Invocations == 1..MaxInv
Signers == {"s1"}                \* s.ID of the configured APK signer
APKFiles == {"apkA"}             \* the file argument
RandomSuffixes == {"1", "2"}     \* the random string ioutil.TempFile appends
NoName == <<>>

\* h := sha256.New(); h.Write(file); h.Sum(nil)
SHA256(file) == IF file = "apkA" THEN "digestA" ELSE "digestB"

\* fmt.Sprintf("apk2_%s.key", s.ID) and so on
KeyPattern(id) == <<"apk2_", id, ".key">>
CertPattern(id) == <<"apk2_", id, ".cert">>
InputPattern(file) == <<"apk2_input_", SHA256(file), ".apk">>

\* The suffixes ioutil.TempFile can end on: it opens with O_CREATE|O_EXCL and
\* tries another random suffix while the name exists.
TempFileSuffixesNoExcl(pattern, t) == RandomSuffixes
TempFileSuffixes(pattern, t) == { x \in RandomSuffixes : Append(pattern, x) \notin DOMAIN t }

\* ioutil.TempFile("", pattern): a new file of mode 0600 named pattern + suffix;
\* suffix "" stands for a failed call.
ioTempFile(pattern, t, owner, suffix) ==
    LET name == Append(pattern, suffix) IN
    IF suffix = "" THEN [err |-> "cannot create temp file", name |-> NoName, tmp |-> t]
    ELSE [err |-> nil, name |-> name,
          tmp |-> IF name \in DOMAIN t THEN t
                  ELSE [q \in DOMAIN t \cup {name} |->
                          IF q = name THEN [owner |-> owner, mode |-> "0600", content |-> ""]
                          ELSE t[q]]]

\* ioutil.WriteFile(name, content, perm) in the temp directory: an existing file
\* is truncated and keeps its mode, perm is used only for a file it creates.
tmpWriteFile(name, content, perm, t, owner, fault) ==
    IF fault THEN [err |-> "write failed", tmp |-> t]
    ELSE [err |-> nil,
          tmp |-> [q \in DOMAIN t \cup {name} |->
                     IF q = name
                     THEN IF name \in DOMAIN t THEN [t[name] EXCEPT !.content = content]
                          ELSE [owner |-> owner, mode |-> perm, content |-> content]
                     ELSE t[q]]]

\* os.Remove(name); its error is dropped by the deferred call
osRemove(name, t) == [q \in DOMAIN t \ {name} |-> t[q]]

\* defer os.Remove(name): deferred calls run last in, first out
DeferRemoveForgotten(stack, name) == stack
DeferRemove(stack, name) == <<name>> \o stack

\* Whether invocation i, touching name, touches a file of another invocation.
Foreign(i, name) == name \in DOMAIN tmp /\ tmp[name].owner # i

Idle ==
    [pc |-> "idle", signer |-> "", file |-> "", keyPath |-> NoName, certPath |-> NoName,
     apkPath |-> NoName, defers |-> <<>>, err |-> nil, out |-> "", made |-> 0,
     foreign |-> FALSE]

\* return x, err: from here on only the deferred calls run, with the arguments
\* they were given; the arguments and locals of SignFile are dead.
Return(rec, err, out) ==
    [rec EXCEPT !.pc = "return", !.err = err, !.out = out, !.signer = "", !.file = "",
                !.keyPath = NoName, !.certPath = NoName, !.apkPath = NoName]

\* SignFile is called
SignFile(i, signer, file) ==
    /\ inv[i].pc = "idle"
    /\ inv' = [inv EXCEPT ![i] = [Idle EXCEPT !.pc = "tempKey", !.signer = signer, !.file = file]]
    /\ UNCHANGED <<tmp, fsVars, upVars, gxVars>>

\* keyPath, err := ioutil.TempFile(...); defer os.Remove(keyPath.Name())
TempKey(i) ==
    /\ inv[i].pc = "tempKey"
    /\ \E x \in TempFileSuffixes(KeyPattern(inv[i].signer), tmp) \cup {""} :
         LET r == ioTempFile(KeyPattern(inv[i].signer), tmp, i, x) IN
         /\ tmp' = r.tmp
         /\ inv' = [inv EXCEPT ![i] =
                IF r.err # nil
                THEN Return(@, Wrap(r.err, "apk2: failed to create tempfile with private key"), "")
                ELSE [@ EXCEPT !.pc = "writeKey", !.keyPath = r.name, !.made = @ + 1,
                               !.defers = DeferRemove(@, r.name)]]
    /\ UNCHANGED <<fsVars, upVars, gxVars>>

\* ioutil.WriteFile(keyPath.Name(), []byte(s.pkcs8Key), 0400)
WriteKey(i) ==
    /\ inv[i].pc = "writeKey"
    /\ \E fault \in BOOLEAN :
         LET r == tmpWriteFile(inv[i].keyPath, "pkcs8Key", "0400", tmp, i, fault) IN
         /\ tmp' = r.tmp
         /\ inv' = [inv EXCEPT ![i] =
                IF r.err # nil
                THEN Return(@, Wrap(r.err, "apk2: failed to write private key to tempfile"), "")
                ELSE [@ EXCEPT !.pc = "tempCert",
                               !.foreign = @ \/ Foreign(i, inv[i].keyPath)]]
    /\ UNCHANGED <<fsVars, upVars, gxVars>>

\* certPath, err := ioutil.TempFile(...); defer os.Remove(certPath.Name())
TempCert(i) ==
    /\ inv[i].pc = "tempCert"
    /\ \E x \in TempFileSuffixes(CertPattern(inv[i].signer), tmp) \cup {""} :
         LET r == ioTempFile(CertPattern(inv[i].signer), tmp, i, x) IN
         /\ tmp' = r.tmp
         /\ inv' = [inv EXCEPT ![i] =
                IF r.err # nil
                THEN Return(@, Wrap(r.err, "apk2: failed to create tempfile for input to sign"), "")
                ELSE [@ EXCEPT !.pc = "writeCert", !.certPath = r.name, !.made = @ + 1,
                               !.defers = DeferRemove(@, r.name)]]
    /\ UNCHANGED <<fsVars, upVars, gxVars>>

\* ioutil.WriteFile(certPath.Name(), []byte(s.Certificate), 0400)
WriteCert(i) ==
    /\ inv[i].pc = "writeCert"
    /\ \E fault \in BOOLEAN :
         LET r == tmpWriteFile(inv[i].certPath, "certificate", "0400", tmp, i, fault) IN
         /\ tmp' = r.tmp
         /\ inv' = [inv EXCEPT ![i] =
                IF r.err # nil
                THEN Return(@, Wrap(r.err, "apk2: failed to write public cert to tempfile"), "")
                ELSE [@ EXCEPT !.pc = "tempInput",
                               !.foreign = @ \/ Foreign(i, inv[i].certPath)]]
    /\ UNCHANGED <<fsVars, upVars, gxVars>>

\* tmpAPKFile, err := ioutil.TempFile(...); defer os.Remove(tmpAPKFile.Name())
TempInput(i) ==
    /\ inv[i].pc = "tempInput"
    /\ \E x \in TempFileSuffixes(InputPattern(inv[i].file), tmp) \cup {""} :
         LET r == ioTempFile(InputPattern(inv[i].file), tmp, i, x) IN
         /\ tmp' = r.tmp
         /\ inv' = [inv EXCEPT ![i] =
                IF r.err # nil
                THEN Return(@, Wrap(r.err, "apk2: failed to create tempfile for input to sign"), "")
                ELSE [@ EXCEPT !.pc = "writeInput", !.apkPath = r.name, !.made = @ + 1,
                               !.defers = DeferRemove(@, r.name)]]
    /\ UNCHANGED <<fsVars, upVars, gxVars>>

\* ioutil.WriteFile(tmpAPKFile.Name(), file, 0755): the error is not looked at
WriteInput(i) ==
    /\ inv[i].pc = "writeInput"
    /\ \E fault \in BOOLEAN :
         LET r == tmpWriteFile(inv[i].apkPath, inv[i].file, "0755", tmp, i, fault) IN
         /\ tmp' = r.tmp
         /\ inv' = [inv EXCEPT ![i] =
                [@ EXCEPT !.pc = "sign",
                          !.foreign = @ \/ (r.err = nil /\ Foreign(i, inv[i].apkPath))]]
    /\ UNCHANGED <<fsVars, upVars, gxVars>>

\* apkSigCmd.CombinedOutput(): apksigner reads the key and the certificate and
\* rewrites the input file in place, or fails.
Apksigner(i) ==
    /\ inv[i].pc = "sign"
    /\ \E ok \in BOOLEAN :
         LET readable == {inv[i].keyPath, inv[i].certPath, inv[i].apkPath} \subseteq DOMAIN tmp
             touched == \E n \in {inv[i].keyPath, inv[i].certPath, inv[i].apkPath} : Foreign(i, n)
         IN
         IF ok /\ readable
         THEN /\ tmp' = [tmp EXCEPT ![inv[i].apkPath].content = "signed"]
              /\ inv' = [inv EXCEPT ![i] = [@ EXCEPT !.pc = "readBack", !.foreign = @ \/ touched]]
         ELSE /\ tmp' = tmp
              /\ inv' = [inv EXCEPT ![i] =
                     Return([@ EXCEPT !.foreign = @ \/ touched],
                            Wrap("exit status 1", "apk2: failed to sign"), "")]
    /\ UNCHANGED <<fsVars, upVars, gxVars>>

\* signedApk, err := ioutil.ReadFile(tmpAPKFile.Name())
ReadBack(i) ==
    /\ inv[i].pc = "readBack"
    /\ \E fault \in BOOLEAN :
         IF fault \/ inv[i].apkPath \notin DOMAIN tmp
         THEN inv' = [inv EXCEPT ![i] =
                  Return(@, Wrap("read failed", "apk2: failed to read signed file"), "")]
         ELSE inv' = [inv EXCEPT ![i] =
                  Return([@ EXCEPT !.foreign = @ \/ Foreign(i, inv[i].apkPath)],
                         nil, tmp[inv[i].apkPath].content)]
    /\ UNCHANGED <<tmp, fsVars, upVars, gxVars>>

\* the function returns: the deferred os.Remove calls run, newest first
RunDeferred(i) ==
    /\ inv[i].pc = "return"
    /\ inv[i].defers # <<>>
    /\ tmp' = osRemove(Head(inv[i].defers), tmp)
    /\ inv' = [inv EXCEPT ![i] =
           [@ EXCEPT !.defers = Tail(@), !.foreign = @ \/ Foreign(i, Head(inv[i].defers))]]
    /\ UNCHANGED <<fsVars, upVars, gxVars>>

\* SignFile has returned to its caller
Returns(i) ==
    /\ inv[i].pc = "return"
    /\ inv[i].defers = <<>>
    /\ inv' = [inv EXCEPT ![i] = [@ EXCEPT !.pc = "done"]]
    /\ UNCHANGED <<tmp, fsVars, upVars, gxVars>>

\* the caller is served; the worker takes the next request
NextRequest(i) ==
    /\ inv[i].pc = "done"
    /\ inv' = [inv EXCEPT ![i] = Idle]
    /\ UNCHANGED <<tmp, fsVars, upVars, gxVars>>
\* ---------------------------------------------------------------- inputs
EmptyMap == [q \in {} |-> q]
Comp(a) == <<a>>                   \* a one-character path component

\* chain upload locations: s3://bucket/a/, s3://bucket/a, file:///a/, file:///a,
\* file:///a/b/, a directory named "no such file or directory", https://host/a/
\* and a string net/url rejects
Locations ==
    { URL(TRUE, "s3", "bucket", <<"/", "a", "/">>),
      URL(TRUE, "s3", "bucket", <<"/", "a">>),
      URL(TRUE, "file", "", <<"/", "a", "/">>),
      URL(TRUE, "file", "", <<"/", "a">>),
      URL(TRUE, "file", "", <<"/", "a", "/", "b", "/">>),
      URL(TRUE, "file", "", <<"/", NoSuchFile, "/">>),
      URL(TRUE, "https", "host", <<"/", "a", "/">>),
      URL(FALSE, "", "", <<>>) }
Names == { <<"n">>, <<"m">> }
UploadData == { <<"EE", "INT", "ROOT">>, <<"EE", "INT", "ROOT", "JUNK">> }
\* What the calls meet, one condition at a time: stat says the path cannot be
\* searched (permission denied), and then nothing can be made under it either;
\* mkdir and write fail early or half way; s3 says the object store refuses.
Env(stat, mkdir, write, s3) == [stat |-> stat, mkdir |-> mkdir, write |-> write, s3 |-> s3]
Envs ==
    { Env(FALSE, "none", "none", FALSE),
      Env(TRUE, "early", "none", FALSE),
      Env(FALSE, "early", "none", FALSE),
      Env(FALSE, "partial", "none", FALSE),
      Env(FALSE, "none", "early", FALSE),
      Env(FALSE, "none", "partial", FALSE),
      Env(FALSE, "none", "none", TRUE) }

\* the file system before the calls: empty; /a holding chains n and m; /a a file
InitFS ==
    { [dirs |-> [q \in {<<>>} |-> "0755"], files |-> EmptyMap],
      [dirs |-> [q \in {<<>>, <<Comp("a")>>} |-> IF q = <<>> THEN "0755" ELSE "0700"],
       files |-> [q \in {<<Comp("a"), Comp("n")>>, <<Comp("a"), Comp("m")>>} |->
                    IF q = <<Comp("a"), Comp("n")>>
                    THEN [data |-> <<"EE", "INT", "ROOT">>, mode |-> "0644"]
                    ELSE [data |-> <<"EEsrv", "INT", "ROOT">>, mode |-> "0644"]]],
      [dirs |-> [q \in {<<>>} |-> "0755"],
       files |-> [q \in {<<Comp("a")>>} |-> [data |-> <<"JUNK">>, mode |-> "0644"]]] }

Net(getErr, code, body, readErr) ==
    [getErr |-> getErr, code |-> code, body |-> body, readErr |-> readErr]
ErrorBodies == { <<>>, <<"JUNK">>, <<"EE", "INT", "ROOT">> }
HttpOutcomes ==
    {Net(TRUE, 0, <<>>, FALSE), Net(FALSE, 200, <<>>, TRUE)}
      \cup { Net(FALSE, 200, b, FALSE) : b \in Bodies }
      \cup { Net(FALSE, c, b, FALSE) : c \in {404, 500}, b \in ErrorBodies }
LocalOutcomes == {Net(FALSE, 0, <<>>, FALSE), Net(FALSE, 0, <<>>, TRUE)}

X5Us ==
    { URL(TRUE, "https", "host", <<"/", "a", "/", "n">>),
      URL(TRUE, "file", "", <<"/", "a", "/", "n">>),
      URL(TRUE, "file", "", <<"/", "a", "/", "m">>),
      URL(TRUE, "file", "", <<"/", "a", "/">>),
      URL(TRUE, "file", "", <<"/", "a", "n">>),
      URL(TRUE, "s3", "bucket", <<"/", "a", "/", "n">>),
      URL(FALSE, "", "", <<>>) }
NetOutcomes(x5u) ==
    IF x5u.ok /\ x5u.Scheme \in {"http", "https"} THEN HttpOutcomes ELSE LocalOutcomes

\* ---------------------------------------------------------------- specifications
InitWith(fs) ==
    /\ dirs = fs.dirs
    /\ files = fs.files
    /\ s3objects = EmptyMap
    /\ up_call = [loc |-> URL(FALSE, "", "", <<>>), name |-> <<>>, data |-> <<>>,
                  env |-> Env(FALSE, "none", "none", FALSE)]
    /\ up_err = nil
    /\ up_s3calls = 0
    /\ up_localcalls = 0
    /\ up_before = [dirs |-> fs.dirs, files |-> fs.files, objects |-> EmptyMap]
    /\ nops = 0
    /\ gx_in = [x5u |-> URL(FALSE, "", "", <<>>), net |-> Net(FALSE, 0, <<>>, FALSE)]
    /\ gx_out = NotCalled
    /\ tmp = EmptyMap
    /\ inv = [i \in Invocations |-> Idle]

Init == \E fs \in InitFS : InitWith(fs)
InitAPK == InitWith([dirs |-> [q \in {<<>>} |-> "0755"], files |-> EmptyMap])

NextUpload ==
    /\ nops < MaxOps
    /\ \E loc \in Locations, name \in Names, data \in UploadData, env \in Envs :
          upload(loc, name, data, env)

NextGetX5U ==
    /\ ~gx_out.done
    /\ \E x5u \in X5Us : \E net \in NetOutcomes(x5u) : GetX5U(x5u, net)

\* The round trip through a chain upload location: upload(D, N), then GetX5U of
\* the location string with the name appended, with nothing written in between.
X5UAt(loc, name) == [loc EXCEPT !.Path = @ \o name]
RoundTripNames == Names \cup {<<"n", "?", "m">>}
RoundTripData ==
    { <<"EE", "INT", "ROOT">>, <<"ROOT", "INT", "ROOT">>, <<"EE", "INT", "ROOT", "JUNK">> }

NextStore ==
    /\ nops < MaxOps
    /\ ~gx_out.done
    /\ \E loc \in Locations, name \in RoundTripNames, data \in RoundTripData, env \in Envs :
          upload(loc, name, data, env)

NextFetch ==
    /\ nops > 0
    /\ ~gx_out.done
    /\ GetX5U(X5UAt(up_call.loc, up_call.name), Net(FALSE, 0, <<>>, FALSE))

NextAPK ==
    \E i \in Invocations :
        \/ \E signer \in Signers, file \in APKFiles : SignFile(i, signer, file)
        \/ TempKey(i)
        \/ WriteKey(i)
        \/ TempCert(i)
        \/ WriteCert(i)
        \/ TempInput(i)
        \/ WriteInput(i)
        \/ Apksigner(i)
        \/ ReadBack(i)
        \/ RunDeferred(i)
        \/ Returns(i)
        \/ NextRequest(i)

Next == NextUpload \/ NextGetX5U \/ NextAPK

SpecUpload == Init /\ [][NextUpload]_vars
SpecGetX5U == Init /\ [][NextGetX5U]_vars
SpecRoundTrip == Init /\ [][NextStore \/ NextFetch]_vars
SpecAPK == InitAPK /\ [][NextAPK]_vars
Spec == Init /\ [][Next]_vars
\* ================================================================ claims
\* ---------------------------------------------------------------- helpers
\* The first three PEM decodes of a body, each on the rest the one before left.
Decode1(body) == pemDecode(body)
Decode2(body) == pemDecode(Decode1(body).rest)
Decode3(body) == pemDecode(Decode2(body).rest)
IsCertBlock(b) == ~b.isNil /\ b.Type = "CERTIFICATE"

\* The body holds three PEM blocks of type CERTIFICATE in sequence.
ThreeCertificateBlocks(body) ==
    /\ IsCertBlock(Decode1(body).block)
    /\ IsCertBlock(Decode2(body).block)
    /\ IsCertBlock(Decode3(body).block)

\* ... and each of them parses as a certificate.
ThreeParseableCertificates(body) ==
    /\ ThreeCertificateBlocks(body)
    /\ \A b \in {Decode1(body).block, Decode2(body).block, Decode3(body).block} :
          x509ParseCertificate(b.Bytes).err = nil

BodyCerts(body) ==
    << x509ParseCertificate(Decode1(body).block.Bytes).cert,
       x509ParseCertificate(Decode2(body).block.Bytes).cert,
       x509ParseCertificate(Decode3(body).block.Bytes).cert >>

\* The chain of the body verifies: first certificate, code signing, the third as
\* the only root and the second as the only intermediate.
ChainVerifies(certs) ==
    /\ Len(certs) = 3
    /\ x509Verify(certs[1], {certs[3]}, {certs[2]}, "codeSigning") = nil

\* The location's path and the name, separated by exactly one path separator.
JoinPath(path, name) == IF EndsWithSlash(path) THEN path \o name ELSE path \o <<"/">> \o name

Called == nops > 0
CallScheme == IF up_call.loc.ok THEN up_call.loc.Scheme ELSE "unparseable"

\* ---------------------------------------------------------------- C1
\* C1: for every retrieved body, GetX5U returns a non-nil error whenever the body
\* does not hold three PEM blocks of type CERTIFICATE in sequence; whenever it
\* returns a nil error the returned slice holds exactly the three certificates
\* of the body, in body order.
C1_MalformedChainIsError ==
    (gx_out.done /\ gx_out.retrieved) =>
        /\ ~ThreeCertificateBlocks(gx_out.body) => gx_out.err # nil
        /\ gx_out.err = nil =>
              /\ ThreeParseableCertificates(gx_out.body)
              /\ gx_out.certs = BodyCerts(gx_out.body)

\* ---------------------------------------------------------------- C2
\* C2: a retrieved body of three parseable CERTIFICATE blocks followed by at
\* least one further byte makes GetX5U return a non-nil error, whether or not
\* the three certificates form a valid chain: the chain is not verified.
C2_TrailingDataIsError ==
    ( /\ gx_out.done
      /\ gx_out.retrieved
      /\ ThreeParseableCertificates(gx_out.body)
      /\ Len(Decode3(gx_out.body).rest) > 0 )
    => (gx_out.err # nil /\ ~gx_out.verified)

\* A valid chain followed by further bytes was retrieved and refused.
C2_Witness ==
    /\ gx_out.done
    /\ gx_out.retrieved
    /\ ThreeParseableCertificates(gx_out.body)
    /\ Len(Decode3(gx_out.body).rest) > 0
    /\ ChainVerifies(BodyCerts(gx_out.body))
    /\ gx_out.err # nil

\* ---------------------------------------------------------------- C3
\* C3: GetX5U returns a nil error only if the first certificate of the body
\* verifies, code signing required, against the third as only root and the
\* second as only intermediate; a verification failure gives a non-nil error.
C3_NilErrorOnlyIfVerified ==
    gx_out.done =>
        /\ gx_out.err = nil => (gx_out.verified /\ ChainVerifies(gx_out.certs))
        /\ (gx_out.verified /\ ~ChainVerifies(gx_out.certs)) => gx_out.err # nil

\* ---------------------------------------------------------------- C4
\* What the transport answers for the call's argument.
Answer == clientGet(urlParse(gx_in.x5u).url, gx_in.net, dirs, files)
RetrievalFails ==
    \/ urlParse(gx_in.x5u).err # nil
    \/ Answer.err # nil
    \/ Answer.StatusCode # 200
    \/ Answer.readErr

\* C4: if the X5U is no URL, the GET fails, the status is not 200 or the body
\* cannot be read, GetX5U returns a non-nil error and an empty slice, and neither
\* PEM decoding nor chain verification takes place.
C4_RetrievalFailureIsError ==
    (gx_out.done /\ RetrievalFails) =>
        /\ gx_out.err # nil
        /\ gx_out.certs = <<>>
        /\ gx_out.pemDecodes = 0
        /\ ~gx_out.verified

\* The server answered 404 with a body that is a valid chain, and was refused.
C4_Witness ==
    /\ gx_out.done
    /\ urlParse(gx_in.x5u).err = nil
    /\ Answer.err = nil
    /\ Answer.StatusCode = 404
    /\ ChainVerifies(BodyCerts(Answer.body))
    /\ gx_out.err # nil

\* ---------------------------------------------------------------- C5
\* C5: for every upload location (s3 or file, with or without a trailing slash)
\* and every name, a successful upload stores the data at the location's path
\* and the name separated by exactly one path separator.
C5_StoredUnderLocation ==
    (Called /\ up_err = nil) =>
        LET want == JoinPath(up_call.loc.Path, up_call.name) IN
        /\ CallScheme = "s3" =>
              /\ <<up_call.loc.Host, want>> \in DOMAIN s3objects
              /\ s3objects[<<up_call.loc.Host, want>>].data = up_call.data
        /\ CallScheme = "file" =>
              /\ Split(want) \in DOMAIN files
              /\ files[Split(want)].data = up_call.data

\* ---------------------------------------------------------------- C6
\* C6: a directory upload creates has mode 0755 and a chain file it creates has
\* mode 0644.
C6_CreatedModes ==
    Called =>
        /\ \A q \in DOMAIN dirs \ DOMAIN up_before.dirs : dirs[q] = "0755"
        /\ \A q \in DOMAIN files \ DOMAIN up_before.files : files[q].mode = "0644"

\* ---------------------------------------------------------------- C7
\* C7: upload dispatches on the scheme of the chain upload location alone:
\* s3 makes exactly one object-store upload and touches no local file, file
\* makes one local write and no object-store upload, an unparseable location
\* or another scheme returns a non-nil error and does neither.
C7_DispatchOnScheme ==
    Called =>
        /\ CallScheme = "s3" =>
              /\ up_s3calls = 1 /\ up_localcalls = 0
              /\ dirs = up_before.dirs /\ files = up_before.files
        /\ CallScheme = "file" =>
              /\ up_s3calls = 0 /\ up_localcalls = 1
              /\ s3objects = up_before.objects
        /\ CallScheme \notin {"s3", "file"} =>
              /\ up_err # nil
              /\ up_s3calls = 0 /\ up_localcalls = 0
              /\ dirs = up_before.dirs /\ files = up_before.files
              /\ s3objects = up_before.objects

\* upload was called with an https location and refused it without a write.
C7_Witness ==
    /\ Called
    /\ CallScheme = "https"
    /\ up_err # nil
    /\ up_s3calls = 0 /\ up_localcalls = 0

\* ---------------------------------------------------------------- C8
\* C8: once an invocation of SignFile has returned, with a signed file or with an
\* error at any step, no temp file that invocation created is left.
C8_TempFilesRemoved ==
    \A i \in Invocations :
        inv[i].pc = "done" =>
            /\ inv[i].defers = <<>>
            /\ \A n \in DOMAIN tmp : tmp[n].owner # i

\* An invocation returned an error after it had made the key and certificate
\* files, and another returned a signed file after it had made all three.
C8_Witness ==
    /\ \E i \in Invocations : inv[i].pc = "done" /\ inv[i].err # nil /\ inv[i].made = 2
    /\ \E i \in Invocations : inv[i].pc = "done" /\ inv[i].err = nil /\ inv[i].made = 3

\* ---------------------------------------------------------------- C9
\* The temp files an invocation made and has not removed yet.
Live(i) == { inv[i].defers[k] : k \in 1..Len(inv[i].defers) }

\* C9: whatever the interleaving, the temp file paths of two invocations in
\* flight are disjoint, and no invocation has read, written or removed a temp
\* file of another.
C9_TempPathsDisjoint ==
    \A i, j \in Invocations :
        /\ ~inv[i].foreign
        /\ i # j => Live(i) \cap Live(j) = {}

\* Two invocations of the same signer on the same input both sit at apksigner,
\* each holding its three temp files.
C9_Witness ==
    \E i, j \in Invocations :
        /\ i # j
        /\ inv[i].pc = "sign" /\ inv[j].pc = "sign"
        /\ inv[i].signer = inv[j].signer /\ inv[i].file = inv[j].file
        /\ Cardinality(Live(i)) = 3 /\ Cardinality(Live(j)) = 3

\* ---------------------------------------------------------------- C10
\* C10: the temp file holding the private key has mode 0400 from the moment key
\* material is written into it until it is removed.
C10_KeyFileMode0400 ==
    \A n \in DOMAIN tmp :
        (n[3] = ".key" /\ tmp[n].content = "pkcs8Key") => tmp[n].mode = "0400"
\* ---------------------------------------------------------------- C11
\* The directory the last call was to write into, and what os.Stat said of it
\* before the call.
TargetPath == urlParse(up_call.loc).url.Path
StatBefore == osStat(TargetPath, up_before.dirs, up_before.files, up_call.env.stat)
DirAbsent == StatBefore = NoSuchFile
Wrote == files # up_before.files

ValidChain(data) ==
    /\ ThreeParseableCertificates(data)
    /\ Len(Decode3(data).rest) = 0
    /\ ChainVerifies(BodyCerts(data))
\* No character that ends or escapes the path of a URL.
PlainName(name) == \A k \in 1..Len(name) : name[k] \notin {"?", "#", "%"}
\* GetX5U has answered for the file the last upload stored with success at a
\* file location with trailing slash.
RoundTripDone ==
    /\ nops > 0 /\ gx_out.done
    /\ CallScheme = "file"
    /\ EndsWithSlash(up_call.loc.Path)
    /\ up_err = nil
    /\ ValidChain(up_call.data)
    /\ gx_in.x5u = X5UAt(up_call.loc, up_call.name)

====
